---- MODULE Spec2Model ----
(***************************************************************************)
(* Leave ledger and availability engine of the holiday manager.            *)
(*                                                                         *)
(* The model follows the route handlers of src/app/api/leave-records       *)
(* (collection POST and item PUT / DELETE), the helpers of lib/api-utils   *)
(* and the balance projection of the employee page.                        *)
(*                                                                         *)
(* Time is a number of ticks; a day has TicksPerDay ticks.  A date string  *)
(* "YYYY-MM-DD" of a request is a day number d (days since 1970-01-01) and *)
(* new Date(d) is the tick of its UTC midnight.  new Date() (the wall      *)
(* clock) is the variable now and can fall inside a day.                   *)
(***************************************************************************)
EXTENDS Integers, Sequences, FiniteSets, TLC

\* ---------------------------------------------------------------- bounds
MaxDay == 4
TicksPerDay == 2
MaxNow == 2
MaxCreates == 2
MaxCalcDay == 10

Days == 0..MaxDay

\* ------------------------------------------------------------- constants
NullDate == 0 - 1

EmployeeIds == {"e1", "e2"}
UnknownEmployee == "e0"
LeaveStatuses == {"APPROVED", "PENDING", "REJECTED"}

VARIABLES
    employees,      \* employee id -> row of the Employee table
    leaveRecords,   \* rows of the LeaveRecord table, in creation order
    nextId,         \* the next fresh leave record id
    now,            \* the wall clock, in ticks
    procs,          \* the requests in flight: each one's position and what it has read
    calc            \* the last call of a pure helper: its arguments and its result

vars == <<employees, leaveRecords, nextId, now, procs, calc>>

\* ---------------------------------------------------------- pure helpers

\* new Date("YYYY-MM-DD"): UTC midnight of day d
NewDate(d) == d * TicksPerDay

\* parseInt of a JSON number that holds an integer
ParseInt(v) == v

\* Math.ceil(a / b), b > 0
MathCeilDiv(a, b) == (a + b - 1) \div b

\* Date.prototype.getDay of the midnight tick t: 0 = Sunday .. 6 = Saturday
\* (1970-01-01 was a Thursday)
getDay(t) == ((t \div TicksPerDay) + 4) % 7

\* datesOverlap with open intervals: a shared boundary day is not seen
datesOverlapStrict(start1, end1, start2, end2) == start1 < end2 /\ start2 < end1

datesOverlap(start1, end1, start2, end2) == start1 <= end2 /\ start2 <= end1

RECURSIVE calculateWorkingDaysFrom(_, _)
calculateWorkingDaysFrom(current, endDate) ==
    IF current <= endDate
    THEN (IF getDay(current) # 0 /\ getDay(current) # 6 THEN 1 ELSE 0)
         + calculateWorkingDaysFrom(current + TicksPerDay, endDate)
    ELSE 0

calculateWorkingDays(startDate, endDate) == calculateWorkingDaysFrom(startDate, endDate)

\* calculateTotalDays that leaves the last day out
calculateTotalDaysExclusive(startDate, endDate) == MathCeilDiv(endDate - startDate, TicksPerDay)

calculateTotalDays(startDate, endDate) == MathCeilDiv(endDate - startDate, TicksPerDay) + 1

\* calculateDays of the leave form: the counts the page puts in a request
calculateDays(startDay, endDay) ==
    IF NewDate(startDay) >= NewDate(endDay)
    THEN [total |-> 1, working |-> 1]
    ELSE [total |-> MathCeilDiv(NewDate(endDay) - NewDate(startDay), TicksPerDay) + 1,
          working |-> calculateWorkingDaysFrom(NewDate(startDay), NewDate(endDay))]

\* ----------------------------------------------------------------- store

Range(s) == {s[i] : i \in 1..Len(s)}

RecordIds == {r.id : r \in Range(leaveRecords)}

RecordById(id) == CHOOSE r \in Range(leaveRecords) : r.id = id

\* OnLeaveData with the threshold off by one
OnLeaveDataBelowThree(startDate, endDate, type, today) ==
    [currentStatus |->
        IF MathCeilDiv(endDate - today, TicksPerDay) < 3 THEN "returning_soon" ELSE "on_leave",
     currentLeaveStartDate |-> startDate,
     currentLeaveEndDate |-> endDate,
     currentLeaveType |-> type]

\* the data written to the four snapshot columns of an employee
OnLeaveData(startDate, endDate, type, today) ==
    [currentStatus |->
        IF MathCeilDiv(endDate - today, TicksPerDay) <= 3 THEN "returning_soon" ELSE "on_leave",
     currentLeaveStartDate |-> startDate,
     currentLeaveEndDate |-> endDate,
     currentLeaveType |-> type]

\* AvailableData that does not clear the leave type
AvailableDataKeepsType ==
    [currentStatus |-> "available",
     currentLeaveStartDate |-> NullDate,
     currentLeaveEndDate |-> NullDate]

AvailableData ==
    [currentStatus |-> "available",
     currentLeaveStartDate |-> NullDate,
     currentLeaveEndDate |-> NullDate,
     currentLeaveType |-> "null"]

\* EmployeeUpdate without the where clause: every row gets the data
EmployeeUpdateEveryone(emps, id, data) ==
    [e \in DOMAIN emps |-> [f \in DOMAIN emps[e] |->
                            IF f \in DOMAIN data THEN data[f] ELSE emps[e][f]]]

\* prisma.employee.update({ where: { id }, data })
EmployeeUpdate(emps, id, data) ==
    [emps EXCEPT ![id] = [f \in DOMAIN emps[id] |->
                            IF f \in DOMAIN data THEN data[f] ELSE emps[id][f]]]

\* CurrentActiveLeaves without the status filter
CurrentActiveLeavesAnyStatus(recs, employeeId, today) ==
    {r \in Range(recs) : /\ r.employeeId = employeeId
                         /\ r.startDate <= today
                         /\ r.endDate >= today}

\* where: { employeeId, status: 'APPROVED', startDate <= today, endDate >= today }
CurrentActiveLeaves(recs, employeeId, today) ==
    {r \in Range(recs) : /\ r.employeeId = employeeId
                         /\ r.status = "APPROVED"
                         /\ r.startDate <= today
                         /\ r.endDate >= today}

\* ActiveLeaves without the status filter
ActiveLeavesAnyStatus(recs, employeeId, excludedId) ==
    {r \in Range(recs) : /\ r.employeeId = employeeId
                         /\ r.id # excludedId}

\* ActiveLeaves that does not exclude the record being updated
ActiveLeavesIncludingSelf(recs, employeeId, excludedId) ==
    {r \in Range(recs) : /\ r.employeeId = employeeId
                         /\ r.status \in {"APPROVED", "PENDING"}}

\* ActiveLeaves without the employee filter
ActiveLeavesAnyEmployee(recs, employeeId, excludedId) ==
    {r \in Range(recs) : /\ r.status \in {"APPROVED", "PENDING"}
                         /\ r.id # excludedId}

\* where: { employeeId, status in [APPROVED, PENDING], id not excluded }
ActiveLeaves(recs, employeeId, excludedId) ==
    {r \in Range(recs) : /\ r.employeeId = employeeId
                         /\ r.status \in {"APPROVED", "PENDING"}
                         /\ r.id # excludedId}


\* ------------------------------------------------------------- requests

LeaveTypes == {"ANNUAL", "SICK"}

\* the leave type the form starts with
FormTypes == {"ANNUAL"}

\* Date.prototype.getFullYear of tick t (within a few years of 1970-01-01)
getFullYear(t) == 1970 + ((t \div TicksPerDay) \div 365)

\* the accounting year the page puts in a request: new Date().getFullYear()
FormYear == getFullYear(now)

\* a request body as the leave form of the employee page builds it
FormBody(employeeId, startDay, endDay, type, status) ==
    [employeeId |-> employeeId, startDate |-> startDay, endDate |-> endDay,
     totalDays |-> calculateDays(startDay, endDay).total,
     workingDays |-> calculateDays(startDay, endDay).working,
     type |-> type, status |-> status, year |-> FormYear]

PostBodies ==
    {FormBody(e, s, d, t, "APPROVED") :
        e \in EmployeeIds \cup {UnknownEmployee}, s \in Days, d \in Days, t \in FormTypes}

PutBodies ==
    {FormBody("", s, d, t, st) :
        s \in Days, d \in Days, t \in FormTypes, st \in LeaveStatuses}

\* a leave record id that may or may not exist
RequestIds == 1..(MaxCreates + 1)

\* -------------------------------------------------------------- handlers

\* !x of a JSON number and of a JSON string
FalsyNumber(v) == v = 0

FalsyString(v) == v = ""

\* the leave records POST reads to look for a conflict, and those that conflict
PostOverlapping(body) ==
    {r \in ActiveLeaves(leaveRecords, body.employeeId, 0) :
        datesOverlap(NewDate(body.startDate), NewDate(body.endDate), r.startDate, r.endDate)}

\* PostValidation that lets an interval of a single day (start = end) through
PostValidationStrict(body) ==
    IF \/ FalsyString(body.employeeId) \/ FalsyNumber(body.totalDays)
       \/ FalsyNumber(body.workingDays) \/ FalsyString(body.type) \/ FalsyNumber(body.year)
    THEN 400
    ELSE IF body.employeeId \notin DOMAIN employees THEN 404
    ELSE IF NewDate(body.startDate) > NewDate(body.endDate) THEN 400
    ELSE 0

\* the status POST answers with before it looks for a conflict (0: none yet)
PostValidation(body) ==
    IF \/ FalsyString(body.employeeId) \/ FalsyNumber(body.totalDays)
       \/ FalsyNumber(body.workingDays) \/ FalsyString(body.type) \/ FalsyNumber(body.year)
    THEN 400
    ELSE IF body.employeeId \notin DOMAIN employees THEN 404
    ELSE IF NewDate(body.startDate) >= NewDate(body.endDate) THEN 400
    ELSE 0

\* the HTTP status POST /api/leave-records answers with
PostStatus(body) ==
    IF PostValidation(body) # 0 THEN PostValidation(body)
    ELSE IF PostOverlapping(body) # {} THEN 409
    ELSE 200

\* the error text of POST's response ("": success); the conflict text without
\* the status of the overlapping leave that the handler puts in it
PostError(body) ==
    IF \/ FalsyString(body.employeeId) \/ FalsyNumber(body.totalDays)
       \/ FalsyNumber(body.workingDays) \/ FalsyString(body.type) \/ FalsyNumber(body.year)
    THEN "Missing required fields"
    ELSE IF body.employeeId \notin DOMAIN employees THEN "Employee not found"
    ELSE IF NewDate(body.startDate) >= NewDate(body.endDate)
    THEN "End date must be after start date"
    ELSE IF PostOverlapping(body) # {} THEN "Leave dates conflict with existing leave"
    ELSE ""

\* the row prisma.leaveRecord.create writes
PostRecord(body) ==
    [id |-> nextId,
     employeeId |-> body.employeeId,
     startDate |-> NewDate(body.startDate),
     endDate |-> NewDate(body.endDate),
     totalDays |-> ParseInt(body.totalDays),
     workingDays |-> ParseInt(body.workingDays),
     type |-> body.type,
     status |-> "APPROVED",
     year |-> ParseInt(body.year)]

\* POST /api/leave-records
POST(body) ==
    LET start == NewDate(body.startDate)
        end == NewDate(body.endDate)
        today == now
    IN
    IF PostStatus(body) # 200
    THEN UNCHANGED vars
    ELSE /\ nextId <= MaxCreates
         /\ leaveRecords' = Append(leaveRecords, PostRecord(body))
         /\ nextId' = nextId + 1
         /\ employees' =
                IF start <= today /\ end >= today
                THEN EmployeeUpdate(employees, body.employeeId,
                                    OnLeaveData(start, end, body.type, today))
                ELSE employees
         /\ UNCHANGED <<now, procs, calc>>

\* prisma.leaveRecord.update({ where: { id }, data })
LeaveRecordUpdate(recs, id, data) ==
    [i \in 1..Len(recs) |->
        IF recs[i].id = id
        THEN [f \in DOMAIN recs[i] |-> IF f \in DOMAIN data THEN data[f] ELSE recs[i][f]]
        ELSE recs[i]]

\* prisma.leaveRecord.delete({ where: { id } })
LeaveRecordDelete(recs, id) ==
    LET keep(r) == r.id # id IN SelectSeq(recs, keep)

\* the leave records PUT reads to look for a conflict, and those that conflict
PutOverlapping(id, body) ==
    {r \in ActiveLeaves(leaveRecords, RecordById(id).employeeId, id) :
        datesOverlap(NewDate(body.startDate), NewDate(body.endDate), r.startDate, r.endDate)}

\* the status PUT answers with before it looks for a conflict (0: none yet)
PutValidation(id, body) ==
    IF \/ FalsyNumber(body.totalDays) \/ FalsyNumber(body.workingDays)
       \/ FalsyString(body.type) \/ FalsyString(body.status) \/ FalsyNumber(body.year)
    THEN 400
    ELSE IF NewDate(body.startDate) >= NewDate(body.endDate) THEN 400
    ELSE IF id \notin RecordIds THEN 404
    ELSE 0

\* the HTTP status PUT /api/leave-records/{id} answers with
PutStatus(id, body) ==
    IF PutValidation(id, body) # 0 THEN PutValidation(id, body)
    ELSE IF PutOverlapping(id, body) # {} THEN 409
    ELSE 200

\* the error text of PUT's response ("": success); the conflict text without
\* the status of the overlapping leave that the handler puts in it
PutError(id, body) ==
    IF \/ FalsyNumber(body.totalDays) \/ FalsyNumber(body.workingDays)
       \/ FalsyString(body.type) \/ FalsyString(body.status) \/ FalsyNumber(body.year)
    THEN "Missing required fields"
    ELSE IF NewDate(body.startDate) >= NewDate(body.endDate)
    THEN "End date must be after start date"
    ELSE IF id \notin RecordIds THEN "Leave record not found"
    ELSE IF PutOverlapping(id, body) # {}
    THEN "Updated leave dates conflict with existing leave"
    ELSE ""

\* the data prisma.leaveRecord.update writes
PutData(body) ==
    [startDate |-> NewDate(body.startDate),
     endDate |-> NewDate(body.endDate),
     totalDays |-> ParseInt(body.totalDays),
     workingDays |-> ParseInt(body.workingDays),
     type |-> body.type,
     status |-> body.status,
     year |-> ParseInt(body.year)]

\* PUT /api/leave-records/{id}
PUT(id, body) ==
    IF PutStatus(id, body) # 200
    THEN UNCHANGED vars
    ELSE
    LET start == NewDate(body.startDate)
        end == NewDate(body.endDate)
        today == now
        existingRecord == RecordById(id)
        updated == LeaveRecordUpdate(leaveRecords, id, PutData(body))
    IN
    /\ leaveRecords' = updated
    /\ employees' =
            IF start <= today /\ end >= today /\ body.status = "APPROVED"
            THEN EmployeeUpdate(employees, existingRecord.employeeId,
                                OnLeaveData(start, end, body.type, today))
            ELSE IF body.status # "APPROVED"
                    /\ CurrentActiveLeaves(updated, existingRecord.employeeId, today) = {}
            THEN EmployeeUpdate(employees, existingRecord.employeeId, AvailableData)
            ELSE employees
    /\ UNCHANGED <<nextId, now, procs, calc>>

\* the HTTP status DELETE /api/leave-records/{id} answers with
DeleteStatus(id) == IF id \notin RecordIds THEN 404 ELSE 200

\* DELETE /api/leave-records/{id}
DELETE(id) ==
    IF DeleteStatus(id) # 200
    THEN UNCHANGED vars
    ELSE
    LET existingRecord == RecordById(id)
        remaining == LeaveRecordDelete(leaveRecords, id)
        today == now
        active == CurrentActiveLeaves(remaining, existingRecord.employeeId, today)
    IN
    /\ leaveRecords' = remaining
    /\ IF active # {}
       THEN \E currentActiveLeave \in active :
                employees' = EmployeeUpdate(employees, existingRecord.employeeId,
                                OnLeaveData(currentActiveLeave.startDate,
                                            currentActiveLeave.endDate,
                                            currentActiveLeave.type, today))
       ELSE employees' = EmployeeUpdate(employees, existingRecord.employeeId, AvailableData)
    /\ UNCHANGED <<nextId, now, procs, calc>>

\* formatDateForDisplay: the calendar day of an instant (server clock in UTC),
\* without its time of day
formatDateForDisplay(t) == t \div TicksPerDay

\* details.conflictingLeave of a 409 response that names record r
ConflictingLeave(r) ==
    [id |-> r.id,
     period |-> <<formatDateForDisplay(r.startDate), formatDateForDisplay(r.endDate)>>,
     type |-> r.type,
     status |-> r.status]

\* the conflictingLeave a 409 of POST may carry: find() returns the first
\* overlapping row in the order findMany returned them, which the query leaves open
PostConflictingLeaves(body) == {ConflictingLeave(r) : r \in PostOverlapping(body)}

\* the conflictingLeave a 409 of PUT may carry
PutConflictingLeaves(id, body) == {ConflictingLeave(r) : r \in PutOverlapping(id, body)}

\* the wall clock advances between requests
Tick ==
    /\ now < MaxNow
    /\ now' = now + 1
    /\ UNCHANGED <<employees, leaveRecords, nextId, procs, calc>>

\* ------------------------------------------------------- specification

Procs == {1, 2}

NoBody ==
    [employeeId |-> "", startDate |-> 0, endDate |-> 0, totalDays |-> 0,
     workingDays |-> 0, type |-> "", status |-> "", year |-> 0]

\* a request slot with no request in it
IdleProc ==
    [pc |-> "idle", op |-> "", id |-> 0, body |-> NoBody, found |-> {},
     status |-> 0, failedAt |-> ""]

\* the annual leave entitlement of the two seeded employees
Entitlement(e) == IF e = "e1" THEN 25 ELSE 28

\* the email column: the phone number the employee routes store in it, or the
\* placeholder temp_<Date.now()>@placeholder.com (temp: the clock it was made at)
Email(phone, temp) == [phone |-> phone, temp |-> temp]

\* an employee row with no leave activity yet
InitEmployee(e) ==
    [firstName |-> IF e = "e1" THEN "John" ELSE "Jane",
     lastName |-> IF e = "e1" THEN "Doe" ELSE "Smith",
     email |-> Email(IF e = "e1" THEN "john.doe@homestaff.com"
                     ELSE "jane.smith@homestaff.com", NullDate),
     department |-> IF e = "e1" THEN "Driver" ELSE "Kitchen",
     role |-> IF e = "e1" THEN "Personal Driver" ELSE "Head Chef",
     currentStatus |-> "available",
     currentLeaveStartDate |-> NullDate,
     currentLeaveEndDate |-> NullDate,
     currentLeaveType |-> "null",
     annualLeaveEntitlement |-> Entitlement(e)]

NoCall == [fn |-> "", args |-> <<>>, result |-> <<>>]

Init ==
    /\ employees = [e \in EmployeeIds |-> InitEmployee(e)]
    /\ leaveRecords = <<>>
    /\ nextId = 1
    /\ now = 0
    /\ procs = [p \in Procs |-> IdleProc]
    /\ calc = NoCall

Next ==
    \/ \E body \in PostBodies : POST(body)
    \/ \E id \in RequestIds, body \in PutBodies : PUT(id, body)
    \/ \E id \in RequestIds : DELETE(id)
    \/ Tick

Spec == Init /\ [][Next]_vars

\* ------------------------------------------ the handlers, call by call
\* Each step is one awaited storage call of a handler together with the
\* synchronous code that follows it, up to the next storage call.  Requests
\* of different slots interleave at these steps; a storage call may throw,
\* which the handler's catch block answers with 500.

StepDays == 0..(MaxDay - 3)

StepEmployees == {"e1"}

StepPostBodies ==
    {FormBody(e, s, d, t, "APPROVED") :
        e \in StepEmployees \cup {UnknownEmployee}, s \in StepDays, d \in StepDays,
        t \in FormTypes}

StepPutBodies ==
    {FormBody("", s, d, t, st) :
        s \in StepDays, d \in StepDays, t \in FormTypes, st \in {"APPROVED", "REJECTED"}}

StepIds == 1..MaxCreates

\* the handler returns: only the response and the record it names are kept
Answer(proc, status) ==
    [IdleProc EXCEPT !.pc = "done", !.op = proc.op, !.id = proc.id,
                     !.status = status, !.failedAt = proc.failedAt]

Goto(proc, pc) == [proc EXCEPT !.pc = pc]

\* POST: prisma.employee.findUnique and the validation around it
PostFindEmployee(p, body) ==
    /\ procs[p].pc = "idle"
    /\ procs' = [procs EXCEPT ![p] =
            IF PostValidation(body) # 0
            THEN Answer([IdleProc EXCEPT !.op = "POST", !.body = body], PostValidation(body))
            ELSE Goto([IdleProc EXCEPT !.op = "POST", !.body = body], "findMany")]
    /\ UNCHANGED <<employees, leaveRecords, nextId, now, calc>>

\* PostFindMany that persists the record before it answers a conflict
PostFindManyWritesFirst(p) ==
    LET body == procs[p].body
        overlapping == {r \in ActiveLeaves(leaveRecords, body.employeeId, 0) :
                            datesOverlap(NewDate(body.startDate), NewDate(body.endDate),
                                         r.startDate, r.endDate)}
    IN
    /\ procs[p].op = "POST" /\ procs[p].pc = "findMany"
    /\ nextId <= MaxCreates
    /\ leaveRecords' = IF overlapping # {} THEN Append(leaveRecords, PostRecord(body))
                       ELSE leaveRecords
    /\ procs' = [procs EXCEPT ![p] =
            IF overlapping # {}
            THEN Answer(@, 409)
            ELSE Goto(@, "create")]
    /\ UNCHANGED <<employees, nextId, now, calc>>

\* POST: prisma.leaveRecord.findMany and the overlap check on what it returned
PostFindMany(p) ==
    LET body == procs[p].body
        existingLeaveRecords == ActiveLeaves(leaveRecords, body.employeeId, 0)
        overlapping == {r \in existingLeaveRecords :
                            datesOverlap(NewDate(body.startDate), NewDate(body.endDate),
                                         r.startDate, r.endDate)}
    IN
    /\ procs[p].op = "POST" /\ procs[p].pc = "findMany"
    /\ procs' = [procs EXCEPT ![p] =
            IF overlapping # {}
            THEN Answer(@, 409)
            ELSE Goto(@, "create")]
    /\ UNCHANGED <<employees, leaveRecords, nextId, now, calc>>

\* POST: prisma.leaveRecord.create
PostCreate(p) ==
    LET body == procs[p].body
        today == now
    IN
    /\ procs[p].op = "POST" /\ procs[p].pc = "create"
    /\ nextId <= MaxCreates
    /\ leaveRecords' = Append(leaveRecords, PostRecord(body))
    /\ nextId' = nextId + 1
    /\ procs' = [procs EXCEPT ![p] =
            IF NewDate(body.startDate) <= today /\ NewDate(body.endDate) >= today
            THEN Goto([@ EXCEPT !.id = nextId], "updateEmployee")
            ELSE Answer([@ EXCEPT !.id = nextId], 200)]
    /\ UNCHANGED <<employees, now, calc>>

\* POST: prisma.employee.update
PostUpdateEmployee(p) ==
    LET body == procs[p].body
    IN
    /\ procs[p].op = "POST" /\ procs[p].pc = "updateEmployee"
    /\ employees' = EmployeeUpdate(employees, body.employeeId,
                        OnLeaveData(NewDate(body.startDate), NewDate(body.endDate),
                                    body.type, now))
    /\ procs' = [procs EXCEPT ![p] = Answer(@, 200)]
    /\ UNCHANGED <<leaveRecords, nextId, now, calc>>

\* PUT: prisma.leaveRecord.findUnique and the validation before it
PutFindRecord(p, id, body) ==
    /\ procs[p].pc = "idle"
    /\ procs' = [procs EXCEPT ![p] =
            IF PutValidation(id, body) # 0
            THEN Answer([IdleProc EXCEPT !.op = "PUT", !.id = id, !.body = body],
                        PutValidation(id, body))
            ELSE Goto([IdleProc EXCEPT !.op = "PUT", !.id = id,
                          !.body = [body EXCEPT !.employeeId = RecordById(id).employeeId]],
                      "findMany")]
    /\ UNCHANGED <<employees, leaveRecords, nextId, now, calc>>

\* PUT: prisma.leaveRecord.findMany and the overlap check on what it returned
PutFindMany(p) ==
    LET body == procs[p].body
        otherLeaveRecords == ActiveLeaves(leaveRecords, body.employeeId, procs[p].id)
        overlapping == {r \in otherLeaveRecords :
                            datesOverlap(NewDate(body.startDate), NewDate(body.endDate),
                                         r.startDate, r.endDate)}
    IN
    /\ procs[p].op = "PUT" /\ procs[p].pc = "findMany"
    /\ procs' = [procs EXCEPT ![p] =
            IF overlapping # {}
            THEN Answer(@, 409)
            ELSE Goto(@, "update")]
    /\ UNCHANGED <<employees, leaveRecords, nextId, now, calc>>

\* PUT: prisma.leaveRecord.update, which throws when the row is gone
PutUpdate(p) ==
    LET body == procs[p].body
        today == now
    IN
    /\ procs[p].op = "PUT" /\ procs[p].pc = "update"
    /\ IF procs[p].id \notin RecordIds
       THEN /\ procs' = [procs EXCEPT ![p] = Answer([@ EXCEPT !.failedAt = "update"], 500)]
            /\ UNCHANGED leaveRecords
       ELSE /\ leaveRecords' = LeaveRecordUpdate(leaveRecords, procs[p].id, PutData(body))
            /\ procs' = [procs EXCEPT ![p] =
                    IF /\ NewDate(body.startDate) <= today /\ NewDate(body.endDate) >= today
                       /\ body.status = "APPROVED"
                    THEN Goto(@, "updateEmployee")
                    ELSE IF body.status # "APPROVED"
                    THEN Goto(@, "findFirst")
                    ELSE Answer(@, 200)]
    /\ UNCHANGED <<employees, nextId, now, calc>>

\* PUT: prisma.employee.update with the updated leave
PutUpdateEmployee(p) ==
    LET body == procs[p].body
    IN
    /\ procs[p].op = "PUT" /\ procs[p].pc = "updateEmployee"
    /\ employees' = EmployeeUpdate(employees, body.employeeId,
                        OnLeaveData(NewDate(body.startDate), NewDate(body.endDate),
                                    body.type, now))
    /\ procs' = [procs EXCEPT ![p] = Answer(@, 200)]
    /\ UNCHANGED <<leaveRecords, nextId, now, calc>>

\* PUT: prisma.leaveRecord.findFirst for a leave that covers today
PutFindFirst(p) ==
    /\ procs[p].op = "PUT" /\ procs[p].pc = "findFirst"
    /\ procs' = [procs EXCEPT ![p] =
            IF CurrentActiveLeaves(leaveRecords, procs[p].body.employeeId, now) = {}
            THEN Goto(@, "setAvailable")
            ELSE Answer(@, 200)]
    /\ UNCHANGED <<employees, leaveRecords, nextId, now, calc>>

\* PUT and DELETE: prisma.employee.update to available
SetAvailable(p) ==
    /\ procs[p].pc = "setAvailable"
    /\ employees' = EmployeeUpdate(employees, procs[p].body.employeeId, AvailableData)
    /\ procs' = [procs EXCEPT ![p] = Answer(@, 200)]
    /\ UNCHANGED <<leaveRecords, nextId, now, calc>>

\* DELETE: prisma.leaveRecord.findUnique
DeleteFindRecord(p, id) ==
    /\ procs[p].pc = "idle"
    /\ procs' = [procs EXCEPT ![p] =
            IF DeleteStatus(id) # 200
            THEN Answer([IdleProc EXCEPT !.op = "DELETE", !.id = id], DeleteStatus(id))
            ELSE Goto([IdleProc EXCEPT !.op = "DELETE", !.id = id,
                          !.body = [NoBody EXCEPT !.employeeId = RecordById(id).employeeId]],
                      "delete")]
    /\ UNCHANGED <<employees, leaveRecords, nextId, now, calc>>

\* DELETE: prisma.leaveRecord.delete, which throws when the row is gone
DeleteRecord(p) ==
    /\ procs[p].op = "DELETE" /\ procs[p].pc = "delete"
    /\ IF procs[p].id \notin RecordIds
       THEN /\ procs' = [procs EXCEPT ![p] = Answer([@ EXCEPT !.failedAt = "delete"], 500)]
            /\ UNCHANGED leaveRecords
       ELSE /\ leaveRecords' = LeaveRecordDelete(leaveRecords, procs[p].id)
            /\ procs' = [procs EXCEPT ![p] = Goto(@, "findFirst")]
    /\ UNCHANGED <<employees, nextId, now, calc>>

\* DELETE: prisma.leaveRecord.findFirst for a remaining leave that covers today
DeleteFindFirst(p) ==
    LET active == CurrentActiveLeaves(leaveRecords, procs[p].body.employeeId, now)
    IN
    /\ procs[p].op = "DELETE" /\ procs[p].pc = "findFirst"
    /\ IF active = {}
       THEN procs' = [procs EXCEPT ![p] = Goto(@, "setAvailable")]
       ELSE \E currentActiveLeave \in active :
                procs' = [procs EXCEPT ![p] =
                            Goto([@ EXCEPT !.found = {currentActiveLeave}], "updateEmployee")]
    /\ UNCHANGED <<employees, leaveRecords, nextId, now, calc>>

\* DELETE: prisma.employee.update with the remaining active leave
DeleteUpdateEmployee(p) ==
    /\ procs[p].op = "DELETE" /\ procs[p].pc = "updateEmployee"
    /\ \E currentActiveLeave \in procs[p].found :
            employees' = EmployeeUpdate(employees, procs[p].body.employeeId,
                            OnLeaveData(currentActiveLeave.startDate,
                                        currentActiveLeave.endDate,
                                        currentActiveLeave.type, now))
    /\ procs' = [procs EXCEPT ![p] = Answer(@, 200)]
    /\ UNCHANGED <<leaveRecords, nextId, now, calc>>

\* the positions at which the next thing a handler does is a storage call
StoragePcs == {"findMany", "create", "update", "delete", "findFirst", "updateEmployee",
               "setAvailable"}

\* the pending storage call throws: the catch block answers 500
StorageFailure(p) ==
    /\ procs[p].pc \in StoragePcs
    /\ procs' = [procs EXCEPT ![p] = Answer([@ EXCEPT !.failedAt = procs[p].pc], 500)]
    /\ UNCHANGED <<employees, leaveRecords, nextId, now, calc>>

\* the response is sent and the slot is free for the next request
Respond(p) ==
    /\ procs[p].pc = "done"
    /\ procs' = [procs EXCEPT ![p] = IdleProc]
    /\ UNCHANGED <<employees, leaveRecords, nextId, now, calc>>

NextSteps ==
    \E p \in Procs :
        \/ \E body \in StepPostBodies : PostFindEmployee(p, body)
        \/ PostFindMany(p)
        \/ PostCreate(p)
        \/ PostUpdateEmployee(p)
        \/ \E id \in StepIds, body \in StepPutBodies : PutFindRecord(p, id, body)
        \/ PutFindMany(p)
        \/ PutUpdate(p)
        \/ PutUpdateEmployee(p)
        \/ PutFindFirst(p)
        \/ SetAvailable(p)
        \/ \E id \in StepIds : DeleteFindRecord(p, id)
        \/ DeleteRecord(p)
        \/ DeleteFindFirst(p)
        \/ DeleteUpdateEmployee(p)
        \/ StorageFailure(p)
        \/ Respond(p)

SpecSteps == Init /\ [][NextSteps]_vars

\* concurrent Creates and Deletes, call by call, with no storage failure
NextCreateDelete ==
    \E p \in Procs :
        \/ \E body \in StepPostBodies : PostFindEmployee(p, body)
        \/ PostFindMany(p)
        \/ PostCreate(p)
        \/ PostUpdateEmployee(p)
        \/ \E id \in StepIds : DeleteFindRecord(p, id)
        \/ DeleteRecord(p)
        \/ DeleteFindFirst(p)
        \/ DeleteUpdateEmployee(p)
        \/ SetAvailable(p)
        \/ Respond(p)

SpecCreateDelete == Init /\ [][NextCreateDelete]_vars

\* ------------------------------------------------- the employee routes

\* a body of PUT /api/employees/{id}
EmployeeBody(firstName, phone, department, entitlement) ==
    [firstName |-> firstName, lastName |-> "", phone |-> phone,
     department |-> department, role |-> "Housekeeper",
     annualLeaveEntitlement |-> entitlement]

EmployeePutBodies ==
    {EmployeeBody(f, ph, d, n) :
        f \in {"", "Joan"}, ph \in {"", "0700"}, d \in {"Kitchen", "Garden"},
        n \in {0, 20}}

\* the data prisma.employee.update writes for an employee edit
EmployeePutData(body) ==
    [firstName |-> body.firstName,
     lastName |-> IF FalsyString(body.lastName) THEN "" ELSE body.lastName,
     email |-> IF FalsyString(body.phone) THEN Email("", now) ELSE Email(body.phone, NullDate),
     department |-> body.department,
     role |-> body.role,
     annualLeaveEntitlement |-> ParseInt(body.annualLeaveEntitlement)]

\* the HTTP status PUT /api/employees/{id} answers with: 500 when the email
\* would break the unique constraint of the column
EmployeePutStatus(id, body) ==
    IF \/ FalsyString(body.firstName) \/ FalsyString(body.department)
       \/ FalsyString(body.role) \/ FalsyNumber(body.annualLeaveEntitlement)
    THEN 400
    ELSE IF id \notin DOMAIN employees THEN 404
    ELSE IF \E o \in DOMAIN employees : o # id /\ employees[o].email = EmployeePutData(body).email
    THEN 500
    ELSE 200

\* EmployeePUT that also resets the availability snapshot
EmployeePUTResetsSnapshot(id, body) ==
    IF EmployeePutStatus(id, body) # 200
    THEN UNCHANGED vars
    ELSE /\ employees' = EmployeeUpdate(EmployeeUpdate(employees, id, EmployeePutData(body)),
                                        id, AvailableData)
         /\ UNCHANGED <<leaveRecords, nextId, now, procs, calc>>

\* PUT /api/employees/{id}
EmployeePUT(id, body) ==
    IF EmployeePutStatus(id, body) # 200
    THEN UNCHANGED vars
    ELSE /\ employees' = EmployeeUpdate(employees, id, EmployeePutData(body))
         /\ UNCHANGED <<leaveRecords, nextId, now, procs, calc>>

\* the HTTP status DELETE /api/employees/{id} answers with
EmployeeDeleteStatus(id) == IF id \notin DOMAIN employees THEN 404 ELSE 200

\* CascadeDelete that leaves the leave records alone
NoCascadeDelete(recs, id) == recs

\* the leave records left when the rows of employee id are removed with it
\* (onDelete: Cascade)
CascadeDelete(recs, id) ==
    LET keep(r) == r.employeeId # id IN SelectSeq(recs, keep)

\* DELETE /api/employees/{id}
EmployeeDELETE(id) ==
    IF EmployeeDeleteStatus(id) # 200
    THEN UNCHANGED vars
    ELSE /\ employees' = [e \in DOMAIN employees \ {id} |-> employees[e]]
         /\ leaveRecords' = CascadeDelete(leaveRecords, id)
         /\ UNCHANGED <<nextId, now, procs, calc>>

\* the leave requests made next to the employee edits
EmployeeSpecPostBodies ==
    {FormBody(e, s, d, t, "APPROVED") :
        e \in EmployeeIds, s \in StepDays, d \in StepDays, t \in FormTypes}

NextEmployees ==
    \/ \E body \in EmployeeSpecPostBodies : POST(body)
    \/ \E id \in StepIds, body \in StepPutBodies : PUT(id, body)
    \/ \E id \in StepIds : DELETE(id)
    \/ \E id \in EmployeeIds \cup {UnknownEmployee}, body \in EmployeePutBodies :
            EmployeePUT(id, body)
    \/ \E id \in EmployeeIds \cup {UnknownEmployee} : EmployeeDELETE(id)

SpecEmployees == Init /\ [][NextEmployees]_vars

\* the handlers with the wall clock held still
NextFixedClock ==
    \/ \E body \in PostBodies : POST(body)
    \/ \E id \in RequestIds, body \in PutBodies : PUT(id, body)
    \/ \E id \in RequestIds : DELETE(id)

SpecFixedClock == Init /\ [][NextFixedClock]_vars

\* ------------------------------------------------ the balance projection

\* employee.leaveRecords of GET /api/employees/{id}: most recently created first
EmployeeLeaveRecords(e) ==
    LET own(r) == r.employeeId = e
        asc == SelectSeq(leaveRecords, own)
    IN  [i \in 1..Len(asc) |-> asc[Len(asc) + 1 - i]]

RECURSIVE ReduceWorkingDays(_, _)
\* records.reduce((total, record) => total + record.workingDays, total)
ReduceWorkingDays(records, total) ==
    IF records = <<>> THEN total
    ELSE ReduceWorkingDays(Tail(records), total + Head(records).workingDays)

\* usedAnnualDays that counts every ANNUAL record, whatever its status
usedAnnualDaysAnyStatus(records, selectedYear) ==
    LET inYear(r) == r.year = selectedYear
        annual(r) == r.type = "ANNUAL"
    IN  ReduceWorkingDays(SelectSeq(SelectSeq(records, inYear), annual), 0)

\* usedAnnualDays of the employee page
usedAnnualDays(records, selectedYear) ==
    LET inYear(r) == r.year = selectedYear
        annualApproved(r) == r.type = "ANNUAL" /\ r.status = "APPROVED"
    IN  ReduceWorkingDays(SelectSeq(SelectSeq(records, inYear), annualApproved), 0)

\* remainingAnnualDays of the employee page
remainingAnnualDays(e, selectedYear) ==
    employees[e].annualLeaveEntitlement
        - usedAnnualDays(EmployeeLeaveRecords(e), selectedYear)

\* requests of a caller that fills in the counts, the type and the year itself
RawYears == {1970, 1971}

RawWorkingDays == {2, 3}

RawIntervals == {<<0, 1>>, <<2, 3>>}

RawBody(employeeId, interval, workingDays, type, status, year) ==
    [employeeId |-> employeeId, startDate |-> interval[1], endDate |-> interval[2],
     totalDays |-> calculateTotalDays(NewDate(interval[1]), NewDate(interval[2])),
     workingDays |-> workingDays, type |-> type, status |-> status, year |-> year]

RawPostBodies ==
    {RawBody(e, i, w, t, "APPROVED", y) :
        e \in EmployeeIds, i \in RawIntervals, w \in RawWorkingDays,
        t \in LeaveTypes, y \in RawYears}

RawPutBodies ==
    {RawBody("", i, w, t, st, y) :
        i \in RawIntervals, w \in RawWorkingDays, t \in LeaveTypes,
        st \in LeaveStatuses, y \in RawYears}

NextRaw ==
    \/ \E body \in RawPostBodies : POST(body)
    \/ \E id \in RequestIds, body \in RawPutBodies : PUT(id, body)
    \/ \E id \in RequestIds : DELETE(id)

SpecRaw == Init /\ [][NextRaw]_vars

\* requests of a caller of the API that sets the status of a new record
\* ("": none given) or sends only the status of the record to update
NoStatus == ""

CallerPostBodies ==
    {FormBody(e, s, d, t, st) :
        e \in EmployeeIds, s \in Days, d \in Days, t \in FormTypes,
        st \in LeaveStatuses \cup {NoStatus}}

\* a body whose only field is status: every other field is undefined
StatusOnlyBodies == {[NoBody EXCEPT !.status = st] : st \in LeaveStatuses}

CallerPutBodies == PutBodies \cup StatusOnlyBodies

NextCaller ==
    \/ \E body \in CallerPostBodies : POST(body)
    \/ \E id \in RequestIds, body \in CallerPutBodies : PUT(id, body)
    \/ \E id \in RequestIds : DELETE(id)

SpecCaller == Init /\ [][NextCaller]_vars

\* --------------------------------------------------------- the listing

\* searchParams.get of a parameter that is not in the URL
NoParam == ""

\* the query of GET /api/leave-records: employeeId, year, status and type, each
\* one given or not (the year as a number, 0 when it is not given)
ListingQueries ==
    [employeeId : EmployeeIds \cup {UnknownEmployee, NoParam},
     year : RawYears \cup {0},
     status : LeaveStatuses \cup {NoParam},
     type : LeaveTypes \cup {NoParam}]

\* the where clause GET builds: a parameter that is not given adds no condition
ListingWhere(query, r) ==
    /\ ~FalsyString(query.employeeId) => r.employeeId = query.employeeId
    /\ ~FalsyNumber(query.year) => r.year = ParseInt(query.year)
    /\ ~FalsyString(query.status) => r.status = query.status
    /\ ~FalsyString(query.type) => r.type = query.type

\* ListLeaveRecords in the order of creation, oldest first
ListLeaveRecordsOldestFirst(query) ==
    LET where(r) == ListingWhere(query, r)
    IN  SelectSeq(leaveRecords, where)

\* leaveRecords of the response of GET /api/leave-records:
\* findMany({ where, orderBy: { createdAt: 'desc' } })
ListLeaveRecords(query) ==
    LET where(r) == ListingWhere(query, r)
        asc == SelectSeq(leaveRecords, where)
    IN  [i \in 1..Len(asc) |-> asc[Len(asc) + 1 - i]]

\* ------------------------------------------------------ the pure helpers

\* datesOverlap is called on two intervals, in both orders
CallDatesOverlap(s1, e1, s2, e2) ==
    /\ calc' = [fn |-> "datesOverlap",
                args |-> <<NewDate(s1), NewDate(e1), NewDate(s2), NewDate(e2)>>,
                result |-> <<datesOverlap(NewDate(s1), NewDate(e1), NewDate(s2), NewDate(e2)),
                             datesOverlap(NewDate(s2), NewDate(e2), NewDate(s1), NewDate(e1))>>]
    /\ UNCHANGED <<employees, leaveRecords, nextId, now, procs>>

NextOverlap == \E s1 \in Days, e1 \in Days, s2 \in Days, e2 \in Days : CallDatesOverlap(s1, e1, s2, e2)

SpecOverlap == Init /\ [][NextOverlap]_vars

\* HolidayOverlapWhere without its third clause
HolidayOverlapWhereTwoClauses(startDate, endDate, holiday) ==
    \/ (holiday.startDate <= startDate /\ holiday.endDate >= startDate)
    \/ (holiday.startDate <= endDate /\ holiday.endDate >= endDate)

\* the OR of the where clause of the holidays POST route: the stored holiday
\* contains startDate, or contains endDate, or lies inside [startDate, endDate]
HolidayOverlapWhere(startDate, endDate, holiday) ==
    \/ (holiday.startDate <= startDate /\ holiday.endDate >= startDate)
    \/ (holiday.startDate <= endDate /\ holiday.endDate >= endDate)
    \/ (holiday.startDate >= startDate /\ holiday.endDate <= endDate)

\* the overlap query and datesOverlap are evaluated on the same candidate
\* interval and the same stored interval
CallHolidayOverlap(s, e, s2, e2) ==
    /\ calc' = [fn |-> "holidayOverlap",
                args |-> <<NewDate(s), NewDate(e), NewDate(s2), NewDate(e2)>>,
                result |-> <<HolidayOverlapWhere(NewDate(s), NewDate(e),
                                    [startDate |-> NewDate(s2), endDate |-> NewDate(e2)]),
                             datesOverlap(NewDate(s), NewDate(e), NewDate(s2), NewDate(e2))>>]
    /\ UNCHANGED <<employees, leaveRecords, nextId, now, procs>>

NextHolidayOverlap ==
    \E s \in Days, e \in Days, s2 \in Days, e2 \in Days : CallHolidayOverlap(s, e, s2, e2)

SpecHolidayOverlap == Init /\ [][NextHolidayOverlap]_vars

\* the dates the day counts are computed for
CalcDays == 0..MaxCalcDay

\* calculateTotalDays and calculateWorkingDays are called on the same two dates
CallCalculateDays(s, e) ==
    /\ calc' = [fn |-> "calculateDays",
                args |-> <<NewDate(s), NewDate(e)>>,
                result |-> <<calculateTotalDays(NewDate(s), NewDate(e)),
                             calculateWorkingDays(NewDate(s), NewDate(e))>>]
    /\ UNCHANGED <<employees, leaveRecords, nextId, now, procs>>

NextCalc == \E s \in CalcDays, e \in CalcDays : CallCalculateDays(s, e)

SpecCalc == Init /\ [][NextCalc]_vars

\* ------------------------------------------------- the stated behaviour

SnapshotFields ==
    {"currentStatus", "currentLeaveStartDate", "currentLeaveEndDate", "currentLeaveType"}

\* the availability snapshot stored on an employee row
Snapshot(emp) == [f \in SnapshotFields |-> emp[f]]

RecordsOf(recs, e) == {r \in Range(recs) : r.employeeId = e}

\* the closed interval of a record contains the instant t
Covers(r, t) == r.startDate <= t /\ t <= r.endDate

\* the closed intervals of two records share a calendar day
ShareADay(r1, r2) ==
    \E d \in 0..(MaxDay + 1) :
        /\ r1.startDate <= NewDate(d) /\ NewDate(d) <= r1.endDate
        /\ r2.startDate <= NewDate(d) /\ NewDate(d) <= r2.endDate

IsActive(r) == r.status = "APPROVED" \/ r.status = "PENDING"

\* the number of days from t to endDate, rounded up
DaysRemaining(endDate, t) ==
    CHOOSE n \in (0 - (MaxDay + 2))..(MaxDay + 2) :
        n * TicksPerDay >= endDate - t /\ (n - 1) * TicksPerDay < endDate - t

\* the Availability Deriver: the snapshots it may compute for employee e
Derived(recs, e, t) ==
    LET covering == {r \in RecordsOf(recs, e) : r.status = "APPROVED" /\ Covers(r, t)}
    IN  IF covering = {}
        THEN {[currentStatus |-> "available",
               currentLeaveStartDate |-> NullDate,
               currentLeaveEndDate |-> NullDate,
               currentLeaveType |-> "null"]}
        ELSE {[currentStatus |-> IF DaysRemaining(r.endDate, t) <= 3
                                 THEN "returning_soon" ELSE "on_leave",
               currentLeaveStartDate |-> r.startDate,
               currentLeaveEndDate |-> r.endDate,
               currentLeaveType |-> r.type] : r \in covering}

\* C1: no employee has two distinct APPROVED or PENDING leave records whose
\* closed intervals [startDate, endDate] share a day.
C1_NoOverlap ==
    \A r1 \in Range(leaveRecords), r2 \in Range(leaveRecords) :
        (r1.id # r2.id /\ r1.employeeId = r2.employeeId /\ IsActive(r1) /\ IsActive(r2))
            => ~ShareADay(r1, r2)

\* two active records of one employee are persisted on adjacent days
C1_Witness ==
    \E r1 \in Range(leaveRecords), r2 \in Range(leaveRecords) :
        /\ r1.id # r2.id /\ r1.employeeId = r2.employeeId
        /\ IsActive(r1) /\ IsActive(r2)
        /\ r2.startDate = r1.endDate + TicksPerDay

\* C2: every employee's stored snapshot (status, start date, end date, type)
\* is what the Availability Deriver computes from the employee's current leave
\* records and the current date.
C2_SnapshotConsistent ==
    \A e \in DOMAIN employees : Snapshot(employees[e]) \in Derived(leaveRecords, e, now)

\* the day a midnight tick belongs to
DayOf(t) == t \div TicksPerDay

\* the request that asks again for the interval of record r, with r's counts
SameDatesBody(r) ==
    [employeeId |-> r.employeeId, startDate |-> DayOf(r.startDate),
     endDate |-> DayOf(r.endDate), totalDays |-> r.totalDays,
     workingDays |-> r.workingDays, type |-> r.type, status |-> "APPROVED",
     year |-> r.year]

\* C7: once a record over [s, e] has been set to REJECTED (and no APPROVED or
\* PENDING record of the employee shares a day with it), a Create for the same
\* employee over the identical [s, e] is accepted and persists a new record.
C7_RejectedFreesDates ==
    \A r \in Range(leaveRecords) :
        (/\ r.status = "REJECTED"
         /\ \A o \in RecordsOf(leaveRecords, r.employeeId) : IsActive(o) => ~ShareADay(o, r))
        => /\ PostStatus(SameDatesBody(r)) = 200
           /\ nextId <= MaxCreates =>
                ENABLED (/\ POST(SameDatesBody(r))
                         /\ Len(leaveRecords') = Len(leaveRecords) + 1
                         /\ leaveRecords'[Len(leaveRecords')].startDate = r.startDate
                         /\ leaveRecords'[Len(leaveRecords')].endDate = r.endDate
                         /\ leaveRecords'[Len(leaveRecords')].employeeId = r.employeeId)

\* a REJECTED record and a later record of the same employee over the same dates
C7_Witness ==
    \E r \in Range(leaveRecords), n \in Range(leaveRecords) :
        /\ r.status = "REJECTED" /\ n.status = "APPROVED" /\ n.id > r.id
        /\ n.employeeId = r.employeeId
        /\ n.startDate = r.startDate /\ n.endDate = r.endDate

C9_ReturningSoonThreshold ==
    [][now' = now =>
        \A e \in DOMAIN employees :
            LET snap == Snapshot(employees'[e])
            IN  (employees'[e] # employees[e] /\ snap.currentStatus # "available")
                => /\ \E r \in RecordsOf(leaveRecords', e) :
                        /\ r.status = "APPROVED" /\ Covers(r, now)
                        /\ r.startDate = snap.currentLeaveStartDate
                        /\ r.endDate = snap.currentLeaveEndDate
                   /\ DaysRemaining(snap.currentLeaveEndDate, now) <= 3
                        => snap.currentStatus = "returning_soon"
                   /\ DaysRemaining(snap.currentLeaveEndDate, now) > 3
                        => snap.currentStatus = "on_leave"]_vars

\* one employee on leave with 4 days to go and one with exactly 3 days to go
C9_Witness ==
    \E a \in DOMAIN employees, b \in DOMAIN employees :
        /\ employees[a].currentStatus = "on_leave"
        /\ DaysRemaining(employees[a].currentLeaveEndDate, now) = 4
        /\ employees[b].currentStatus = "returning_soon"
        /\ DaysRemaining(employees[b].currentLeaveEndDate, now) = 3

\* C3: when two Create requests for one employee with overlapping intervals
\* run concurrently, at most one commits: the store never holds the records
\* of both as APPROVED or PENDING.
C3_AtMostOneCommits ==
    \A p \in Procs, q \in Procs :
        (/\ p # q
         /\ procs[p].op = "POST" /\ procs[q].op = "POST"
         /\ procs[p].id \in RecordIds /\ procs[q].id \in RecordIds)
        => LET r1 == RecordById(procs[p].id)
               r2 == RecordById(procs[q].id)
           IN  ~(/\ r1.employeeId = r2.employeeId
                 /\ IsActive(r1) /\ IsActive(r2)
                 /\ ShareADay(r1, r2))

\* the positions at which a handler has not yet changed a leave record
BeforeWritePcs == {"findMany", "create", "update", "delete"}

\* C4: when a storage call of a Create, Update or Delete fails, the record
\* mutation and the snapshot refresh are both committed or neither is: no
\* request fails after its record was written or deleted with the snapshot
\* refresh still to do.
C4_FailureAtomic ==
    \A p \in Procs :
        (procs[p].pc = "done" /\ procs[p].status = 500)
            => procs[p].failedAt \in BeforeWritePcs

\* C5: every persisted record's totalDays and workingDays are the counts the
\* calendar arithmetic gives for its startDate and endDate, whatever counts
\* the request carried.
C5_CountsFromDates ==
    \A r \in Range(leaveRecords) :
        /\ r.totalDays = calculateTotalDays(r.startDate, r.endDate)
        /\ r.workingDays = calculateWorkingDays(r.startDate, r.endDate)

\* C6: datesOverlap(s1, e1, s2, e2) is true exactly when s1 <= e2 and
\* s2 <= e1: for well-formed intervals, exactly when they share a day, so a
\* shared boundary day overlaps and a gap of a day does not; and swapping the
\* two intervals gives the same result.
C6_DatesOverlapClosed ==
    calc.fn = "datesOverlap" =>
        LET s1 == calc.args[1]
            e1 == calc.args[2]
            s2 == calc.args[3]
            e2 == calc.args[4]
        IN  /\ calc.result[1] = (s1 <= e2 /\ s2 <= e1)
            /\ calc.result[1] = calc.result[2]
            /\ (s1 <= e1 /\ s2 <= e2) =>
                    (calc.result[1] <=>
                        \E d \in Days : /\ s1 <= NewDate(d) /\ NewDate(d) <= e1
                                       /\ s2 <= NewDate(d) /\ NewDate(d) <= e2)
            /\ (s1 <= e1 /\ s2 <= e2 /\ e1 = s2) => calc.result[1]
            /\ (s1 <= e1 /\ s2 <= e2 /\ e1 + TicksPerDay <= s2) => ~calc.result[1]

\* two intervals that share only their boundary day were compared
C6_Witness ==
    /\ calc.fn = "datesOverlap"
    /\ calc.args[1] < calc.args[2] /\ calc.args[2] = calc.args[3]
    /\ calc.args[3] < calc.args[4]
    /\ calc.result[1]

RECURSIVE SumWorkingDays(_)
\* the sum of workingDays over a set of records
SumWorkingDays(S) ==
    IF S = {} THEN 0
    ELSE LET r == CHOOSE x \in S : TRUE
         IN  r.workingDays + SumWorkingDays(S \ {r})

\* C10: the annual balance of an employee for a selected year is the
\* entitlement minus the sum of workingDays over exactly the employee's
\* APPROVED ANNUAL records of that year.
C10_BalanceProjection ==
    \A e \in DOMAIN employees, y \in RawYears :
        remainingAnnualDays(e, y) =
            employees[e].annualLeaveEntitlement
                - SumWorkingDays({r \in Range(leaveRecords) :
                                    /\ r.employeeId = e /\ r.status = "APPROVED"
                                    /\ r.type = "ANNUAL" /\ r.year = y})

\* an employee with one counted record and one ANNUAL record of the same year
\* that is not APPROVED and is left out of the balance
C10_Witness ==
    \E a \in Range(leaveRecords), b \in Range(leaveRecords) :
        /\ a.employeeId = b.employeeId /\ a.id # b.id /\ a.year = b.year
        /\ a.type = "ANNUAL" /\ a.status = "APPROVED"
        /\ b.type = "ANNUAL" /\ b.status # "APPROVED"
        /\ remainingAnnualDays(a.employeeId, a.year)
                = employees[a.employeeId].annualLeaveEntitlement - a.workingDays

\* the statuses of NotFound, InvalidInterval and Conflict
RejectionStatuses == {400, 404, 409}

\* C11: the step at which a Create or Update is answered with NotFound,
\* InvalidInterval or Conflict changes no leave record and no employee row,
\* and the request was still at a position before any of its writes.
C11_RejectionChangesNothing ==
    [][\A p \in Procs :
         (/\ procs[p].pc # "done" /\ procs'[p].pc = "done"
          /\ procs'[p].op \in {"POST", "PUT"}
          /\ procs'[p].status \in RejectionStatuses)
         => /\ leaveRecords' = leaveRecords
            /\ employees' = employees
            /\ nextId' = nextId
            /\ procs[p].pc \in BeforeWritePcs \cup {"idle"}]_vars

\* with a record persisted, one request was answered Conflict and another
\* NotFound
C11_Witness ==
    /\ leaveRecords # <<>>
    /\ \E p \in Procs, q \in Procs :
        /\ procs[p].pc = "done" /\ procs[p].status = 409
        /\ procs[q].pc = "done" /\ procs[q].status = 404 /\ procs[q].op = "POST"

\* the records of employee e, other than record id, that are APPROVED or
\* PENDING and share a day with the candidate interval of body
Colliding(e, id, body) ==
    {r \in RecordsOf(leaveRecords, e) :
        /\ r.id # id /\ IsActive(r)
        /\ \E d \in Days : /\ body.startDate <= d /\ d <= body.endDate
                           /\ r.startDate <= NewDate(d) /\ NewDate(d) <= r.endDate}

\* the conflict response names record r: its id, its period, its type, its status
Names(c, r) ==
    /\ c.id = r.id
    /\ c.period = <<DayOf(r.startDate), DayOf(r.endDate)>>
    /\ c.type = r.type
    /\ c.status = r.status

IsWeekend(d) == d % 7 = 2 \/ d % 7 = 3

\* C13: for whole-day dates start <= end, calculateTotalDays is the number of
\* calendar days of [start, end] (end - start in days, plus 1) and
\* calculateWorkingDays is the number of its Monday-to-Friday days; a
\* Monday-to-Friday week gives 5 and 5, a Saturday-to-Sunday interval gives 0
\* working days.
C13_CalendarArithmetic ==
    (calc.fn = "calculateDays" /\ calc.args[1] <= calc.args[2]) =>
        LET s == DayOf(calc.args[1])
            e == DayOf(calc.args[2])
        IN  /\ calc.result[1] = Cardinality(s..e)
            /\ calc.result[1] = (e - s) + 1
            /\ calc.result[2] = Cardinality({d \in s..e : ~IsWeekend(d)})
            /\ (s = 4 /\ e = 8) => calc.result = <<5, 5>>
            /\ (s = 2 /\ e = 3) => calc.result[2] = 0

\* the counts of the week from Monday 1970-01-05 to Friday 1970-01-09 are 5 and 5
C13_Witness ==
    /\ calc.fn = "calculateDays"
    /\ calc.args = <<NewDate(4), NewDate(8)>>
    /\ calc.result = <<5, 5>>

\* C14: a successful Create (existing employee, valid interval, no conflict)
\* is answered with status 201.
C14_CreateAnswers201 ==
    \A body \in PostBodies :
        (PostValidation(body) = 0 /\ Colliding(body.employeeId, 0, body) = {})
            => PostStatus(body) = 201

\* the row of record id after PUT(id, body)
Updated(id, body) ==
    CHOOSE r \in Range(LeaveRecordUpdate(leaveRecords, id, PutData(body))) : r.id = id

\* C15: an Update that supplies only the status of an existing record is
\* answered 200, sets the status and leaves every other attribute of the
\* record as it was.
C15_PartialUpdate ==
    \A id \in RecordIds, body \in StatusOnlyBodies :
        /\ PutStatus(id, body) = 200
        /\ Updated(id, body) = [RecordById(id) EXCEPT !.status = body.status]

\* C16: a Create persists the new record with the status the caller gave,
\* and with APPROVED when the caller gave none.
C16_CallerStatusPersisted ==
    \A body \in CallerPostBodies :
        (PostStatus(body) = 200 /\ nextId <= MaxCreates)
        => ENABLED (/\ POST(body)
                    /\ Len(leaveRecords') = Len(leaveRecords) + 1
                    /\ leaveRecords'[Len(leaveRecords')].status =
                            IF body.status = NoStatus THEN "APPROVED" ELSE body.status)

\* C17: after a successful Update, with the clock held still, the snapshot of
\* the record's owner is what the deriver computes from the owner's records,
\* whatever the Update changed (dates, status, type).
C17_UpdateRefreshesSnapshot ==
    [][\A i \in 1..Len(leaveRecords) :
         (/\ Len(leaveRecords') = Len(leaveRecords)
          /\ leaveRecords'[i].id = leaveRecords[i].id
          /\ leaveRecords'[i] # leaveRecords[i])
         => Snapshot(employees'[leaveRecords[i].employeeId])
                \in Derived(leaveRecords', leaveRecords[i].employeeId, now)]_vars

\* C18: when Creates and Deletes on one employee run concurrently with their
\* storage calls interleaved, then once every request has completed each
\* employee's snapshot is what the deriver computes from the final records.
C18_QuiescentSnapshot ==
    (\A p \in Procs : procs[p].pc \in {"idle", "done"})
        => \A e \in DOMAIN employees :
                Snapshot(employees[e]) \in Derived(leaveRecords, e, now)

\* the new interval of body shares a day with the stored interval of record r
OverlapsOwn(r, body) ==
    \E d \in Days : /\ body.startDate <= d /\ d <= body.endDate
                     /\ r.startDate <= NewDate(d) /\ NewDate(d) <= r.endDate

InvalidInterval == "End date must be after start date"

\* C20: a Create for an existing employee and an Update are rejected with
\* InvalidInterval (400) whenever the end date is not strictly after the start
\* date, start = end included, and are never rejected as InvalidInterval when
\* the start date is before the end date.
C20_InvalidInterval ==
    /\ \A body \in PostBodies :
        /\ (body.employeeId \in DOMAIN employees /\ body.startDate >= body.endDate)
                => PostStatus(body) = 400 /\ PostError(body) = InvalidInterval
        /\ body.startDate < body.endDate => PostError(body) # InvalidInterval
    /\ \A id \in RequestIds, body \in PutBodies :
        /\ body.startDate >= body.endDate
                => PutStatus(id, body) = 400 /\ PutError(id, body) = InvalidInterval
        /\ body.startDate < body.endDate => PutError(id, body) # InvalidInterval

\* with a record persisted, an Update of it to a single day and a Create over
\* a single day are both rejected with InvalidInterval and change nothing
C20_Witness ==
    \E id \in RecordIds, body \in PutBodies, post \in PostBodies :
        /\ body.startDate = body.endDate
        /\ PutStatus(id, body) = 400 /\ PutError(id, body) = InvalidInterval
        /\ ENABLED (PUT(id, body) /\ UNCHANGED vars)
        /\ post.startDate = post.endDate /\ post.employeeId = RecordById(id).employeeId
        /\ PostStatus(post) = 400 /\ PostError(post) = InvalidInterval
        /\ ENABLED (POST(post) /\ UNCHANGED vars)

\* C21: an Update or a Delete of a leave-record id that does not exist is
\* answered 404 whatever the body contains, and a Create that names an
\* employee that does not exist is answered 404.
C21_NotFound ==
    /\ \A id \in RequestIds \ RecordIds :
        /\ DeleteStatus(id) = 404
        /\ \A body \in PutBodies : PutStatus(id, body) = 404
    /\ \A body \in PostBodies :
            body.employeeId \notin DOMAIN employees => PostStatus(body) = 404

\* the attributes of an employee row that are not part of the snapshot
ProfileFields == {"firstName", "lastName", "email", "department", "role",
                  "annualLeaveEntitlement"}

C23_CascadeDelete ==
    [][/\ \A r \in Range(leaveRecords') : r.employeeId \in DOMAIN employees'
       /\ \A e \in DOMAIN employees \ DOMAIN employees' :
            /\ RecordsOf(leaveRecords', e) = {}
            /\ \A b \in EmployeeIds \ {e} :
                    RecordsOf(leaveRecords', b) = RecordsOf(leaveRecords, b)]_vars

\* an employee has been deleted after both creates, and the one record left
\* belongs to the other employee
C23_Witness ==
    /\ DOMAIN employees # EmployeeIds
    /\ nextId = MaxCreates + 1
    /\ Len(leaveRecords) = 1
    /\ leaveRecords[1].employeeId \in DOMAIN employees

\* C24: an employee's currentStatus is available, on_leave or returning_soon;
\* the currentLeave start date, end date and type are all set when the status
\* is on_leave or returning_soon and all null when it is available.
C24_SnapshotShape ==
    \A e \in DOMAIN employees :
        LET emp == employees[e]
        IN  /\ emp.currentStatus \in {"available", "on_leave", "returning_soon"}
            /\ emp.currentStatus \in {"on_leave", "returning_soon"} =>
                    /\ emp.currentLeaveStartDate # NullDate
                    /\ emp.currentLeaveEndDate # NullDate
                    /\ emp.currentLeaveType # "null"
            /\ emp.currentStatus = "available" =>
                    /\ emp.currentLeaveStartDate = NullDate
                    /\ emp.currentLeaveEndDate = NullDate
                    /\ emp.currentLeaveType = "null"

\* one employee is on leave with the leave fields set, and the other is
\* available again after the only record created for them was deleted
C24_Witness ==
    \E a \in DOMAIN employees, b \in DOMAIN employees :
        /\ employees[a].currentStatus = "on_leave"
        /\ employees[a].currentLeaveType = "ANNUAL"
        /\ employees[b].currentStatus = "available"
        /\ RecordsOf(leaveRecords, b) = {}
        /\ nextId = MaxCreates + 1 /\ Len(leaveRecords) = 1

\* the status changes a stored leave record may make
AllowedTransitions ==
    {<<"PENDING", "APPROVED">>, <<"PENDING", "REJECTED">>, <<"APPROVED", "REJECTED">>}

\* C25: a leave record is created PENDING or APPROVED, and its status changes
\* only from PENDING to APPROVED, from PENDING to REJECTED or from APPROVED to
\* REJECTED; a REJECTED or APPROVED record never goes back to PENDING.
C25_StatusTransitions ==
    [][/\ \A n \in Range(leaveRecords') :
            n.id \notin RecordIds => n.status \in {"PENDING", "APPROVED"}
       /\ \A r \in Range(leaveRecords), n \in Range(leaveRecords') :
            (r.id = n.id /\ r.status # n.status)
                => <<r.status, n.status>> \in AllowedTransitions]_vars

\* the records that match every filter the query supplies
Matching(query) ==
    {r \in Range(leaveRecords) :
        /\ query.employeeId # NoParam => r.employeeId = query.employeeId
        /\ query.year # 0 => r.year = query.year
        /\ query.status # NoParam => r.status = query.status
        /\ query.type # NoParam => r.type = query.type}

C27_RejectedUpdateNeverConflicts ==
    \A id \in RecordIds, body \in PutBodies :
        body.status = "REJECTED" => PutStatus(id, body) # 409

\* C28: every Create whose employee exists, whose interval has start < end
\* and which overlaps no APPROVED or PENDING record of the employee is
\* accepted and persists a record, also when the interval has only weekend
\* days and its working-day count is 0.
C28_WeekendOnlyCreateAccepted ==
    \A body \in PostBodies :
        (/\ body.employeeId \in DOMAIN employees
         /\ body.startDate < body.endDate
         /\ Colliding(body.employeeId, 0, body) = {})
        => /\ PostStatus(body) = 200
           /\ nextId <= MaxCreates =>
                ENABLED (POST(body) /\ Len(leaveRecords') = Len(leaveRecords) + 1)

\* C29: a Create, Update or Delete of a leave record of employee A leaves the
\* leave records and the row of every other employee B unchanged, and leaves
\* A's name, department, role, email and entitlement unchanged.
C29_OtherEmployeesUntouched ==
    [][/\ \E a \in DOMAIN employees :
            \A b \in DOMAIN employees \ {a} :
                /\ RecordsOf(leaveRecords', b) = RecordsOf(leaveRecords, b)
                /\ employees'[b] = employees[b]
       /\ \A e \in DOMAIN employees, f \in ProfileFields :
            employees'[e][f] = employees[e][f]]_vars

\* both employees have a record; one is on leave and the other, whose record
\* does not cover now, is still available
C29_Witness ==
    \E a \in DOMAIN employees, b \in DOMAIN employees :
        /\ a # b
        /\ RecordsOf(leaveRecords, a) # {} /\ RecordsOf(leaveRecords, b) # {}
        /\ employees[a].currentStatus # "available"
        /\ employees[b].currentStatus = "available"
        /\ employees[a].annualLeaveEntitlement = Entitlement(a)

\* C30: for every candidate interval [s, e] with s <= e and every stored
\* interval [s2, e2] with s2 <= e2, the three-clause overlap query of the
\* holidays POST route selects the stored interval exactly when
\* datesOverlap(s, e, s2, e2) is true, that is when the two share a day.
C30_QueryIsDatesOverlap ==
    (/\ calc.fn = "holidayOverlap"
     /\ calc.args[1] <= calc.args[2] /\ calc.args[3] <= calc.args[4])
    => /\ calc.result[1] = calc.result[2]
       /\ calc.result[1] <=>
            \E d \in Days : /\ calc.args[1] <= NewDate(d) /\ NewDate(d) <= calc.args[2]
                           /\ calc.args[3] <= NewDate(d) /\ NewDate(d) <= calc.args[4]

\* a stored interval strictly inside the candidate, which only the third
\* clause selects
C30_Witness ==
    /\ calc.fn = "holidayOverlap"
    /\ calc.args[1] < calc.args[3] /\ calc.args[3] <= calc.args[4]
    /\ calc.args[4] < calc.args[2]
    /\ calc.result = <<TRUE, TRUE>>

====
